---------------------------- MODULE Spec2Model ----------------------------
(***************************************************************************)
(* Syllable tokenizer and gibberish-voice timing of weerberichtjes          *)
(* (weather_video.py and its copy in ramadan_video.py).                     *)
(*                                                                         *)
(* Conventions of the model                                                *)
(*   - a string of the program is a sequence of characters, each character *)
(*     a one-element token such as "a"; a character outside ASCII is       *)
(*     written by its code point: "U+00E9" is e-acute, "U+00C3" is         *)
(*     A-tilde;                                                            *)
(*   - times are the program's binary64 floats, in seconds: a float is     *)
(*     written as the natural number 2^75 times its value, and every sum,  *)
(*     product and quotient is rounded as the program rounds it (to 53     *)
(*     significant bits, ties to even);                                    *)
(*   - list positions of the program are 0-based and kept so in            *)
(*     token_index; TLA+ sequences are 1-based, so token number k of the   *)
(*     program is tokens[k + 1];                                           *)
(*   - the font and the width of the background are inputs of the          *)
(*     renderer: a font is given by its advance widths.                    *)
(***************************************************************************)
EXTENDS Integers, Sequences, FiniteSets

VARIABLES
    module,           \* which copy runs: "weather_video" or "ramadan_video"
    text,             \* argument text
    voices_dir,       \* argument voices_dir: what the directory holds
    pc,               \* position in create_gibberish_voice
    outcome,          \* "running", "returned" (the voice), the exception raised,
                      \* or "not Ramadan yet" (ramadan_video.main returned at once)
    tokenized,        \* split_into_syllable_tokens has been called
    tokens,           \* local tokens
    idx,              \* loop index of  for idx, tok in enumerate(tokens)
    draws,            \* number of random.choice(files) calls so far
    chosen_params,    \* local chosen_params (None until the first clip)
    combined_frames,  \* local combined_frames, as its length in bytes
    current_time,     \* local current_time, a float
    syllable_events,  \* local syllable_events
    wav_file,         \* the file out_file on disk
    timing_file,      \* the sidecar <out_file stem>_timing.json on disk
    runs,             \* number of runs of main() begun so far
    video,            \* what create_video computed in this run
    verse_audio,      \* ramadan_video.main: whether verse_audio_path is set, and
                      \* whether the temporary MP3 is on disk
    calls             \* history: for every call of this copy's
                      \* create_gibberish_voice that returned, in order, its
                      \* text, the tokens it had when it returned and the
                      \* token_index values of its events

vars == <<module, text, voices_dir, pc, outcome, tokenized, tokens, idx, draws,
          chosen_params, combined_frames, current_time, syllable_events,
          wav_file, timing_file, runs, video, verse_audio, calls>>

---------------------------------------------------------------------------
(* Bounds of the model *)

\* longest input text, in characters
MaxLen == 3

---------------------------------------------------------------------------
(* Characters *)

\* the characters the input text is drawn from
Chars == {"a", "b", " ", ".", "!", ",", "U+00E9", "U+00C3"}

\* str.isspace() of one character
isspace_ch(ch) == ch \in {" ", "\t", "\n"}

\* str.isalpha() of one character
isalpha_ch(ch) == ch \in {"a", "e", "i", "o", "u", "A", "E", "I", "O", "U",
                          "b", "d", "g", "h", "l", "n", "r", "w", "x", "y", "z", "H",
                          "U+00E9", "U+00E1", "U+00C3", "U+00BA"}

VOWELS_weather == {"a", "e", "i", "o", "u",
                   "U+00E1", "U+00E9", "U+00ED", "U+00F3", "U+00FA",
                   "U+00E4", "U+00EB", "U+00EF", "U+00F6", "U+00FC",
                   "A", "E", "I", "O", "U"}

\* the literal of ramadan_video.py is the UTF-8 of the accented vowels read
\* as Latin-1: A-tilde followed by a symbol, ten times
VOWELS_ramadan == {"a", "e", "i", "o", "u",
                   "U+00C3", "U+00A1", "U+00A9", "U+00AD", "U+00B3", "U+00BA",
                   "U+00A4", "U+00AB", "U+00AF", "U+00B6", "U+00BC",
                   "A", "E", "I", "O", "U"}

VOWELS == IF module = "weather_video" THEN VOWELS_weather ELSE VOWELS_ramadan

\* str.isspace() of a string: non-empty and every character whitespace
isspace(s) == Len(s) > 0 /\ \A k \in 1..Len(s) : isspace_ch(s[k])

RECURSIVE lstrip(_)
lstrip(s) == IF Len(s) > 0 /\ isspace_ch(s[1]) THEN lstrip(Tail(s)) ELSE s

RECURSIVE rstrip(_)
rstrip(s) ==
    IF Len(s) > 0 /\ isspace_ch(s[Len(s)]) THEN rstrip(SubSeq(s, 1, Len(s) - 1)) ELSE s

\* str.strip()
strip(s) == rstrip(lstrip(s))

\* str.endswith(suffixes) for one-character suffixes
endswith(s, suffixes) == Len(s) > 0 /\ s[Len(s)] \in suffixes

---------------------------------------------------------------------------
(* Python floats: IEEE 754 binary64 with round-to-nearest-even.  A float   *)
(* x >= 0 is the natural number x * 2^75, written in base 2^15 with the    *)
(* least significant limb first and no leading zero limb; 0.0 is <<>>      *)

\* the base of the limbs
LimbBase == 32768

\* the bits of a limb
LimbBits == 15

\* the limbs below the binary point: 75 bits
FractionLimbs == 5

\* the significand of a binary64 float has 53 bits
SignificandBits == 53

\* limb i of a natural number, 0 beyond its length
Limb(n, i) == IF i <= Len(n) THEN n[i] ELSE 0

\* a limb list without its leading zero limbs
RECURSIVE Norm(_)
Norm(n) == IF n # <<>> /\ n[Len(n)] = 0 THEN Norm(SubSeq(n, 1, Len(n) - 1)) ELSE n

\* n * 2^(15 k)
RECURSIVE ShiftLimbs(_, _)
ShiftLimbs(n, k) == IF k = 0 \/ n = <<>> THEN n ELSE ShiftLimbs(<<0>> \o n, k - 1)

\* n \div 2^(15 k)
DropLimbs(n, k) == SubSeq(n, k + 1, Len(n))

\* the natural number k < 2^31 as limbs
IntLimbs(k) ==
    Norm(<<k % LimbBase, (k \div LimbBase) % LimbBase, k \div (LimbBase * LimbBase)>>)

RECURSIVE AddFrom(_, _, _, _)
AddFrom(a, b, i, carry) ==
    IF i > Len(a) /\ i > Len(b)
    THEN (IF carry = 0 THEN <<>> ELSE <<carry>>)
    ELSE LET s == Limb(a, i) + Limb(b, i) + carry
         IN  <<s % LimbBase>> \o AddFrom(a, b, i + 1, s \div LimbBase)

\* a + b
BigAdd(a, b) == AddFrom(a, b, 1, 0)

RECURSIVE SubFrom(_, _, _, _)
SubFrom(a, b, i, borrow) ==
    IF i > Len(a) THEN <<>>
    ELSE LET s == Limb(a, i) - Limb(b, i) - borrow
         IN  IF s < 0
             THEN <<s + LimbBase>> \o SubFrom(a, b, i + 1, 1)
             ELSE <<s>> \o SubFrom(a, b, i + 1, 0)

\* a - b for a >= b
BigSub(a, b) == Norm(SubFrom(a, b, 1, 0))

\* a < b
BigLess(a, b) ==
    IF Len(a) # Len(b) THEN Len(a) < Len(b)
    ELSE LET differ == {i \in 1..Len(a) : a[i] # b[i]}
         IN  /\ differ # {}
             /\ LET top == CHOOSE i \in differ : \A j \in differ : j <= i
                IN  a[top] < b[top]

\* a <= b
BigLeq(a, b) == ~BigLess(b, a)

RECURSIVE MulSmallFrom(_, _, _, _)
MulSmallFrom(a, k, i, carry) ==
    IF i > Len(a)
    THEN (IF carry = 0 THEN <<>> ELSE <<carry>>)
    ELSE LET s == a[i] * k + carry
         IN  <<s % LimbBase>> \o MulSmallFrom(a, k, i + 1, s \div LimbBase)

\* a * k for a limb k
MulSmall(a, k) == Norm(MulSmallFrom(a, k, 1, 0))

RECURSIVE MulFrom(_, _, _)
MulFrom(a, b, i) ==
    IF i > Len(b) THEN <<>>
    ELSE BigAdd(ShiftLimbs(MulSmall(a, b[i]), i - 1), MulFrom(a, b, i + 1))

\* a * b
BigMul(a, b) == Norm(MulFrom(a, b, 1))

\* quotient and remainder of the limbs 1..i of a, after the remainder rem of
\* the limbs above, by a divisor d < 2^15
RECURSIVE DivFrom(_, _, _, _)
DivFrom(a, d, i, rem) ==
    IF i = 0 THEN [q |-> <<>>, r |-> rem]
    ELSE LET cur == rem * LimbBase + a[i]
             rest == DivFrom(a, d, i - 1, cur % d)
         IN  [q |-> Append(rest.q, cur \div d), r |-> rest.r]

\* floor(a / d) and a mod d for 0 < d < 2^15
BigDivSmall(a, d) ==
    LET res == DivFrom(a, d, Len(a), 0) IN [q |-> Norm(res.q), r |-> res.r]

\* the number of bits of n
BitLen(n) ==
    IF n = <<>> THEN 0
    ELSE LimbBits * (Len(n) - 1)
         + (CHOOSE k \in 1..LimbBits : 2^(k - 1) <= n[Len(n)] /\ n[Len(n)] < 2^k)

\* bit i of n (bit 0 is the least significant)
Bit(n, i) == (Limb(n, i \div LimbBits + 1) \div (2^(i % LimbBits))) % 2

\* some bit of n below bit i is set
AnyBitBelow(n, i) ==
    \/ \E j \in 1..(i \div LimbBits) : Limb(n, j) # 0
    \/ Limb(n, i \div LimbBits + 1) % (2^(i % LimbBits)) # 0

\* n rounded to a multiple of 2^u, to the nearest and on a tie to the even
\* one; sticky tells that the exact value lies above n
RoundAt(n, u, sticky) ==
    IF u <= 0 THEN n
    ELSE LET q == u \div LimbBits
             r == u % LimbBits
             truncated == [i \in 1..Len(n) |->
                             IF i <= q THEN 0
                             ELSE IF i = q + 1 THEN n[i] - (n[i] % (2^r))
                             ELSE n[i]]
             up == /\ Bit(n, u - 1) = 1
                   /\ sticky \/ AnyBitBelow(n, u - 1) \/ Bit(n, u) = 1
         IN  IF up THEN BigAdd(truncated, ShiftLimbs(<<2^r>>, q)) ELSE Norm(truncated)

\* the float nearest to an exact result n that has extra more limbs below
\* the binary point than a float
FRound(n, extra, sticky) ==
    LET u == IF BitLen(n) - SignificandBits > LimbBits * extra
             THEN BitLen(n) - SignificandBits ELSE LimbBits * extra
    IN  DropLimbs(RoundAt(n, u, sticky), extra)

\* float(k) for a natural number k
FromInt(k) == ShiftLimbs(IntLimbs(k), FractionLimbs)

\* int(x)
FloorInt(x) == Limb(x, FractionLimbs + 1) + LimbBase * Limb(x, FractionLimbs + 2)

\* x + y
FAdd(x, y) == FRound(BigAdd(x, y), 0, FALSE)

\* x - y for x >= y
FSub(x, y) == FRound(BigSub(x, y), 0, FALSE)

\* x * y
FMul(x, y) == FRound(BigMul(x, y), FractionLimbs, FALSE)

\* n / d for natural numbers n and 0 < d < 2^15
FDivInt(n, d) ==
    LET res == BigDivSmall(ShiftLimbs(IntLimbs(n), 2 * FractionLimbs), d)
    IN  FRound(res.q, FractionLimbs, res.r # 0)

\* max(x, y)
FMax(x, y) == IF BigLess(x, y) THEN y ELSE x

---------------------------------------------------------------------------
(* _split_word_into_syllables *)

\* mutant: the first inner loop breaks after one character, vowel or not
SeekVowel_OneStep(word, i) == IF i < Len(word) THEN i + 1 ELSE i

\* first inner loop: move i until a vowel has been seen in this chunk
RECURSIVE SeekVowel(_, _)
SeekVowel(word, i) ==
    IF i < Len(word)
    THEN IF word[i + 1] \in VOWELS THEN i + 1 ELSE SeekVowel(word, i + 1)
    ELSE i

\* mutant: the second inner loop takes the next character, vowel or not
ExtendConsonants_Greedy(word, i) == IF i < Len(word) THEN i + 1 ELSE i

\* mutant: the second inner loop is missing
ExtendConsonants_None(word, i) == i

\* second inner loop: extend over the consonants that follow
RECURSIVE ExtendConsonants(_, _)
ExtendConsonants(word, i) ==
    IF i < Len(word) /\ word[i + 1] \notin VOWELS
    THEN IF \A k \in (i + 1)..Len(word) : word[k] \notin VOWELS
         THEN Len(word)
         ELSE ExtendConsonants(word, i + 1)
    ELSE i

\* the outer loop  while i < n  and the  if start < n  after it
RECURSIVE SplitLoop(_, _, _, _)
SplitLoop(word, start, i, syllables) ==
    IF i < Len(word)
    THEN LET j == ExtendConsonants(word, SeekVowel(word, i))
         IN  SplitLoop(word, j, j, Append(syllables, SubSeq(word, start + 1, j)))
    ELSE IF start < Len(word)
         THEN Append(syllables, SubSeq(word, start + 1, Len(word)))
         ELSE syllables

\* mutant: a chunk is kept only if it holds a vowel
_split_word_into_syllables_VowelChunksOnly(word) ==
    LET HasVowelIn(chunk) == \E k \in 1..Len(chunk) : chunk[k] \in VOWELS
    IN  SelectSeq(SplitLoop(word, 0, 0, <<>>), HasVowelIn)

_split_word_into_syllables(word) == SplitLoop(word, 0, 0, <<>>)

---------------------------------------------------------------------------
(* split_into_syllable_tokens *)

\* tokens.extend(_split_word_into_syllables(current_word)) if current_word
FlushWord(toks, current_word) ==
    IF current_word # <<>>
    THEN toks \o _split_word_into_syllables(current_word)
    ELSE toks

\* mutant: the word is flushed without the character glued to its last chunk
OtherChar_NoGlue(toks, current_word, ch) ==
    IF current_word # <<>>
    THEN toks \o _split_word_into_syllables(current_word)
    ELSE IF toks # <<>> /\ ~isspace(toks[Len(toks)])
         THEN [toks EXCEPT ![Len(toks)] = Append(@, ch)]
         ELSE Append(toks, <<ch>>)

\* mutant: punctuation is also appended to a whitespace token
OtherChar_GlueToSpace(toks, current_word, ch) ==
    IF current_word # <<>>
    THEN LET sylls == _split_word_into_syllables(current_word)
         IN  IF sylls # <<>>
             THEN toks \o [sylls EXCEPT ![Len(sylls)] = Append(@, ch)]
             ELSE Append(toks, <<ch>>)
    ELSE IF toks # <<>>
         THEN [toks EXCEPT ![Len(toks)] = Append(@, ch)]
         ELSE Append(toks, <<ch>>)

\* mutant: punctuation after a word goes to the word's first chunk
OtherChar_GlueFirst(toks, current_word, ch) ==
    IF current_word # <<>>
    THEN LET sylls == _split_word_into_syllables(current_word)
         IN  IF sylls # <<>>
             THEN toks \o [sylls EXCEPT ![1] = Append(@, ch)]
             ELSE Append(toks, <<ch>>)
    ELSE IF toks # <<>> /\ ~isspace(toks[Len(toks)])
         THEN [toks EXCEPT ![Len(toks)] = Append(@, ch)]
         ELSE Append(toks, <<ch>>)

\* mutant: punctuation with no pending word is always a token of its own
OtherChar_Standalone(toks, current_word, ch) ==
    IF current_word # <<>>
    THEN LET sylls == _split_word_into_syllables(current_word)
         IN  IF sylls # <<>>
             THEN toks \o [sylls EXCEPT ![Len(sylls)] = Append(@, ch)]
             ELSE Append(toks, <<ch>>)
    ELSE Append(toks, <<ch>>)

\* the branch for a character that is neither whitespace nor a letter
OtherChar(toks, current_word, ch) ==
    IF current_word # <<>>
    THEN LET sylls == _split_word_into_syllables(current_word)
         IN  IF sylls # <<>>
             THEN toks \o [sylls EXCEPT ![Len(sylls)] = Append(@, ch)]
             ELSE Append(toks, <<ch>>)
    ELSE IF toks # <<>> /\ ~isspace(toks[Len(toks)])
         THEN [toks EXCEPT ![Len(toks)] = Append(@, ch)]
         ELSE Append(toks, <<ch>>)

\* the loop  for ch in text  from character k on, and the flush after it
RECURSIVE TokenLoop(_, _, _, _)
TokenLoop(t, k, toks, current_word) ==
    IF k > Len(t)
    THEN FlushWord(toks, current_word)
    ELSE LET ch == t[k]
         IN  IF isspace_ch(ch)
             THEN TokenLoop(t, k + 1, Append(FlushWord(toks, current_word), <<ch>>), <<>>)
             ELSE IF isalpha_ch(ch)
                  THEN TokenLoop(t, k + 1, toks, Append(current_word, ch))
                  ELSE TokenLoop(t, k + 1, OtherChar(toks, current_word, ch), <<>>)

split_into_syllable_tokens(t) == TokenLoop(t, 1, <<>>, <<>>)

---------------------------------------------------------------------------
(* The voice clips directory *)

\* wave parameters of a clip (wf.getparams())
Params(nchannels, sampwidth, framerate, nframes) ==
    [nchannels |-> nchannels, sampwidth |-> sampwidth,
     framerate |-> framerate, nframes |-> nframes]

\* chosen_params = None
None == Params(0, 0, 0, 0)

\* a directory entry: its file name, the name's extension, the clip's parameters
Entry(name, ext, params) == [name |-> name, ext |-> ext, params |-> params]

\* f.lower() of a file name's extension
lower(ext) == IF ext = ".WAV" THEN ".wav" ELSE ext

\* what voices_dir may be: no directory, or a directory with these entries
NoDirectory == [isdir |-> FALSE, entries |-> {}]

Directory(entries) == [isdir |-> TRUE, entries |-> entries]

VoiceDirs ==
    { NoDirectory,
      Directory({}),
      Directory({Entry("notes.txt", ".txt", None)}),
      \* clips of one format, 16 bit mono, of 2 frames and of 1 frame: short,
      \* so that PitchFactors gives every length the resampling can give them
      Directory({Entry("a.wav", ".wav", Params(1, 2, 1000, 2)),
                 Entry("B.WAV", ".WAV", Params(1, 2, 1000, 1)),
                 Entry("notes.txt", ".txt", None)}),
      \* a stereo clip among mono clips
      Directory({Entry("a.wav", ".wav", Params(1, 2, 1000, 1)),
                 Entry("c.wav", ".wav", Params(2, 2, 1000, 1))}),
      \* 24 bit clips (not resampled), one of 0.3 s and one with no frames
      Directory({Entry("e.wav", ".wav", Params(1, 3, 1000, 300)),
                 Entry("z.wav", ".wav", Params(1, 3, 1000, 0))}),
      \* a clip whose header gives the sample rate 0
      Directory({Entry("r.wav", ".wav", Params(1, 3, 0, 441))}) }

\* the voice directories of the runs: none, one without clips, one with
\* two 24 bit clips, of 0.2 s and of 0.004 s, and one with a clip whose header
\* gives the sample rate 0
RunDirs ==
    { NoDirectory,
      Directory({Entry("notes.txt", ".txt", None)}),
      Directory({Entry("e.wav", ".wav", Params(1, 3, 1000, 200)),
                 Entry("s.wav", ".wav", Params(1, 3, 1000, 4))}),
      Directory({Entry("r.wav", ".wav", Params(1, 3, 0, 441))}) }

\* the clips of the directories of the model, by their headers
ClipParams == {e.params : e \in UNION {d.entries : d \in VoiceDirs \cup RunDirs}} \ {None}

\* mutant: every directory entry counts as a clip
files_NoFilter == voices_dir.entries

\* files = [... for f in os.listdir(voices_dir) if f.lower().endswith(".wav")]
files == {e \in voices_dir.entries : lower(e.ext) = ".wav"}

\* values of random.uniform(0.9, 1.1), in percent: both ends and values
\* between them. Only int(orig_len / pitch_factor) is used of a value, and for
\* the clips of VoiceDirs these values give each result a factor in
\* [0.9, 1.1] can give (2 frames: 2 and 1; 1 frame: 1, int(1 / 1.1) = 0
\* being raised to 1)
PitchFactors == {90, 95, 100, 105, 110}

---------------------------------------------------------------------------
(* create_gibberish_voice: one drawn clip *)

\* framerate = params.framerate or 44100
Framerate(params) == IF params.framerate = 0 THEN 44100 ELSE params.framerate

\* the clip is resampled only for sample widths 1, 2 and 4 (dtype is not None)
Resampled(params) == params.sampwidth \in {1, 2, 4}

Max(a, b) == IF a >= b THEN a ELSE b

\* n_frames: new_len = max(1, int(orig_len / pitch_factor)), or params.nframes
n_frames(params, pitch) ==
    IF Resampled(params)
    THEN Max(1, (params.nframes * 100) \div pitch)
    ELSE params.nframes

\* n_frames / float(framerate) for every clip and pitch factor of the model
Durations ==
    [params \in ClipParams, pitch \in PitchFactors |->
        FDivInt(n_frames(params, pitch), Framerate(params))]

\* dur = n_frames / float(framerate)
Dur(params, pitch) == Durations[params, pitch]

\* len(frames), in bytes
FrameBytes(params, pitch) == n_frames(params, pitch) * params.nchannels * params.sampwidth

\* the test that raises ValueError for a clip of another format
FormatDiffers(params) ==
    \/ params.nchannels # chosen_params.nchannels
    \/ params.sampwidth # chosen_params.sampwidth
    \/ Framerate(params) # chosen_params.framerate

\* pause for a whitespace token, the float 0.05
SHORT_PAUSE == FDivInt(5, 100)

\* pause after sentence punctuation, the float 0.6
LONG_PAUSE == FDivInt(6, 10)

\* append_silence(seconds): the new length of combined_frames, after
\* int(chosen_params.framerate * seconds) for the sample rates of the clips
\* of the model and both pauses
SilenceFrames ==
    [rate \in {params.framerate : params \in ClipParams},
     seconds \in {SHORT_PAUSE, LONG_PAUSE} |->
        FloorInt(FMul(FromInt(rate), seconds))]

\* nframes = int(chosen_params.framerate * seconds) frames of silence
append_silence(chosen, frames, seconds) ==
    IF chosen = None \/ seconds = FromInt(0)
    THEN frames
    ELSE frames + SilenceFrames[chosen.framerate, seconds]
                    * chosen.nchannels * chosen.sampwidth

\* mutant: a terminator anywhere in the token counts
EndsSentence_Anywhere(tok) == \E k \in 1..Len(tok) : tok[k] \in {".", "!", "?"}

\* tok.strip().endswith((".", "!", "?"))
EndsSentence(tok) == endswith(strip(tok), {".", "!", "?"})

\* mutant: the event records the 1-based position
Event_OneBased(i, start_time, end_time) ==
    [token_index |-> i + 1, start |-> start_time, end |-> end_time]

\* {"token_index": idx, "start": start_time, "end": end_time}
Event(i, start_time, end_time) == [token_index |-> i, start |-> start_time, end |-> end_time]

\* mutant: the end is counted from the start of the audio
EndTime_FromZero(now, dur) == dur

\* end_time = current_time + dur
EndTime(now, dur) == FAdd(now, dur)

\* mutant: the clock is left at the clip's start
ClockAfterClip_Start(start_time, end_time) == start_time

\* current_time = end_time
ClockAfterClip(start_time, end_time) == end_time

\* if tok.strip().endswith((".", "!", "?")): current_time += 0.6
TimeAfterToken(tok, now) ==
    IF EndsSentence(tok) THEN FAdd(now, LONG_PAUSE) ELSE now

\* current_time += 0.05 for a whitespace token
TimeAfterSpace(now) == FAdd(now, SHORT_PAUSE)

---------------------------------------------------------------------------
(* Files on disk *)

\* the WAV written from chosen_params and combined_frames
\* (the header holds the number of frames written, not the nframes of
\* chosen_params: wave patches it at close)
WavOf(chosen, frames) ==
    [exists |-> TRUE,
     params |-> [chosen EXCEPT !.nframes = frames \div (chosen.nchannels * chosen.sampwidth)],
     bytes |-> frames]

NoWav == [exists |-> FALSE, params |-> None, bytes |-> 0]

\* the file wave.open(out_file, "wb") created when setparams then refuses the
\* parameters: it exists and holds no header and no audio
EmptyWav == [exists |-> TRUE, params |-> None, bytes |-> 0]

\* voice.duration of AudioFileClip(voice_file): the length of the WAV's audio,
\* its number of frames by its sample rate
WavDuration(wav) ==
    IF wav.params = None THEN FromInt(0)
    ELSE FDivInt(wav.bytes \div (wav.params.nchannels * wav.params.sampwidth),
                 wav.params.framerate)

\* the sidecar json.dump writes
TimingOf(toks, events) == [exists |-> TRUE, valid |-> TRUE, tokens |-> toks, syllables |-> events]

NoTiming == [exists |-> FALSE, valid |-> FALSE, tokens |-> <<>>, syllables |-> <<>>]

\* verse_audio_path = None, and no temporary MP3 on disk
NoVerseAudio == [path |-> FALSE, isfile |-> FALSE]

\* a sidecar that open() truncated and json.dump did not complete
BrokenTiming == [exists |-> TRUE, valid |-> FALSE, tokens |-> <<>>, syllables |-> <<>>]

---------------------------------------------------------------------------
(* create_video / create_ramadan_video: the subtitles *)

\* "".join(ss)
RECURSIVE Concat(_)
Concat(ss) == IF ss = <<>> THEN <<>> ELSE Head(ss) \o Concat(Tail(ss))

\* any(ch.isalpha() for ch in tok)
HasLetter(s) == \E k \in 1..Len(s) : isalpha_ch(s[k])

Min(a, b) == IF a <= b THEN a ELSE b

\* avatar_entry_duration = 1.0
avatar_entry_duration == FromInt(1)

\* EXTRA_TAIL_SECONDS = 5.0
EXTRA_TAIL_SECONDS == FromInt(5)

\* the shortest subtitle clip, the 0.01 of max(0.01, ...)
MIN_CLIP_DURATION == FDivInt(1, 100)

\* the duration of the verse audio clip create_ramadan_video loads: the clip
\* is loaded when verse_audio_path is set and the file exists (3 seconds in
\* the model), else there is none and nothing is added to the total
VerseAudioDuration(va) == IF va.path /\ va.isfile THEN FromInt(3) ELSE FromInt(0)

\* total_duration = avatar_entry_duration + voice.duration
\*                  (+ verse_audio.duration) + EXTRA_TAIL_SECONDS
TotalDuration(voice_duration, verse_duration) ==
    FAdd(FAdd(FAdd(avatar_entry_duration, voice_duration), verse_duration),
         EXTRA_TAIL_SECONDS)

\* meta.get("tokens") of the sidecar; <<>> stands for None too (not tokens)
SidecarTokens(tf) == IF tf.exists /\ tf.valid THEN tf.tokens ELSE <<>>

\* meta.get("syllables") of the sidecar; <<>> stands for None too
SidecarSyllables(tf) == IF tf.exists /\ tf.valid THEN tf.syllables ELSE <<>>

\* json.load raises on the sidecar
SidecarUnreadable(tf) == tf.exists /\ ~tf.valid

\* syllable_indices: the 0-based positions of the tokens with a letter among
\* the first n
RECURSIVE LetterPositions(_, _)
LetterPositions(toks, n) ==
    IF n = 0 THEN <<>>
    ELSE IF HasLetter(toks[n])
         THEN Append(LetterPositions(toks, n - 1), n - 1)
         ELSE LetterPositions(toks, n - 1)

\* the evenly spaced events over voice.duration: event number step of N
\* starts at (step - 1) / N * voice.duration and ends where the next one
\* starts, the last one at voice.duration
FallbackEvents(toks, voice_duration) ==
    LET syllable_indices == LetterPositions(toks, Len(toks))
        total_syllables == Len(syllable_indices)
    IN  [step \in 1..total_syllables |->
           [token_index |-> syllable_indices[step],
            start |-> FMul(FDivInt(step - 1, total_syllables), voice_duration),
            end |-> IF step < total_syllables
                    THEN FMul(FDivInt(step, total_syllables), voice_duration)
                    ELSE voice_duration]]

\* mutant: the subtitles start with the first event
FirstWordIndex_Zero(toks, events) == 0

\* first_word_index: the first event whose token holds a letter, else 0
FirstWordIndex(toks, events) ==
    LET words == {i \in 1..Len(events) :
                     /\ events[i].token_index < Len(toks)
                     /\ HasLetter(toks[events[i].token_index + 1])}
    IN  IF words = {} THEN 0
        ELSE (CHOOSE i \in words : \A j \in words : i <= j) - 1

\* partial_text = "".join(tokens[: idx + 1])
PartialText(toks, token_index) ==
    Concat(SubSeq(toks, 1, Min(token_index + 1, Len(toks))))

\* the end of the first word of a string that starts with a word
WordEnd(t) ==
    CHOOSE k \in 1..Len(t) :
        /\ \A j \in 1..k : ~isspace_ch(t[j])
        /\ k = Len(t) \/ isspace_ch(t[k + 1])

\* str.split(): the maximal runs of characters that are not whitespace
RECURSIVE split(_)
split(s) ==
    LET t == lstrip(s)
    IN  IF t = <<>> THEN <<>>
        ELSE <<SubSeq(t, 1, WordEnd(t))>> \o split(SubSeq(t, WordEnd(t) + 1, Len(t)))

\* a font at NORMAL_TEXT_FONT_SIZE: the advance width in pixels of a letter,
\* of the space and of any other character
Font(letter, space, other) == [letter |-> letter, space |-> space, other |-> other]

\* the fonts ImageFont.truetype("Arial.ttf", 40) and ImageFont.load_default()
\* may give: a proportional one and a fixed-width one
Fonts == {Font(22, 11, 11), Font(6, 6, 6)}

\* the widths bg_clip.w of the background: that of the slide, and a narrow
\* one, in which a text of two words fits on one line with one font and not
\* with the other
BackgroundWidths == {1920, 48}

\* box_width = int(bg_clip.w * 0.75)
box_width(w) == (w * 3) \div 4

\* font.getlength(s): the sum of the advance widths of the characters
RECURSIVE getlength(_, _)
getlength(font, s) ==
    IF s = <<>> THEN 0
    ELSE (IF isalpha_ch(Head(s)) THEN font.letter
          ELSE IF isspace_ch(Head(s)) THEN font.space
          ELSE font.other)
         + getlength(font, Tail(s))

\* the loop over words: a word joins the current line when the line still
\* fits the box, else the current line is closed and the word starts the
\* next one; the last line is closed after the loop
RECURSIVE WrapWords(_, _, _, _, _)
WrapWords(words, lines, current, font, width) ==
    IF words = <<>>
    THEN IF current # <<>> THEN Append(lines, current) ELSE lines
    ELSE LET w == Head(words)
             test == strip(current \o <<" ">> \o w)
         IN  IF getlength(font, test) <= width
             THEN WrapWords(Tail(words), lines, test, font, width)
             ELSE WrapWords(Tail(words),
                            IF current # <<>> THEN Append(lines, current) ELSE lines,
                            w, font, width)

\* lines: the lines drawn for partial_text, words = partial_text.split()
\* wrapped to the box width
WrappedLines(partial_text, font, width) ==
    WrapWords(split(partial_text), <<>>, <<>>, font, width)

\* a - b of two floats; a negative difference is only ever taken with
\* max(0.01, ...), and 0.0 stands for it
Minus(a, b) == IF BigLess(a, b) THEN FromInt(0) ELSE FSub(a, b)

\* mutant: every subtitle lasts to the next event's end
ClipDuration_ToNextEnd(events, i, total) ==
    IF i < Len(events)
    THEN FMax(MIN_CLIP_DURATION, Minus(events[i + 1].end, events[i].start))
    ELSE FMax(MIN_CLIP_DURATION, Minus(total, events[i].start))

\* clip_duration of event number i (1-based): max(0.01, next_start - start_t),
\* for the last event max(0.01, total_duration - start_t)
ClipDuration(events, i, total) ==
    IF i < Len(events)
    THEN FMax(MIN_CLIP_DURATION, Minus(events[i + 1].start, events[i].start))
    ELSE FMax(MIN_CLIP_DURATION, Minus(total, events[i].start))

\* the clip of event number i (1-based): the lines drawn on it, with_start,
\* with_duration
SubtitleClip(toks, events, i, total, font, width) ==
    [lines |-> WrappedLines(PartialText(toks, events[i].token_index), font, width),
     start |-> FAdd(events[i].start, avatar_entry_duration),
     duration |-> ClipDuration(events, i, total)]

\* the loop over the events from first_word_index on
SubtitleClips(toks, events, total, font, width) ==
    LET first_word_index == FirstWordIndex(toks, events)
    IN  [k \in 1..(Len(events) - first_word_index) |->
           SubtitleClip(toks, events, first_word_index + k, total, font, width)]

\* fps and frames_to_cut of the cut at the end of the video
fps == 24

frames_to_cut == 8

\* cut_duration = frames_to_cut / fps
cut_duration == FDivInt(frames_to_cut, fps)

\* new_end_time = actual_duration - cut_duration, the end of the video that
\* is written; no cut for a total of at most cut_duration, nor when
\* new_end_time is not between 0 and the total
NewEndTime(total) ==
    IF BigLess(cut_duration, total)
    THEN LET new_end_time == FSub(total, cut_duration)
         IN  IF BigLess(FromInt(0), new_end_time) /\ BigLess(new_end_time, total)
             THEN new_end_time
             ELSE total
    ELSE total

\* what create_video has computed: total_duration; the end of the written
\* video; the tokens and events the subtitles are made from; the clips
Video(total, toks, events, clips) ==
    [total_duration |-> total, new_end_time |-> NewEndTime(total),
     tokens |-> toks, syllable_events |-> events, subtitle_clips |-> clips]

NoVideo == Video(FromInt(0), <<>>, <<>>, <<>>)

\* the subtitles block: tokens and events from the sidecar, else from
\* fallback_text and evenly spaced; any exception leaves no subtitle
Subtitles(tf, fallback_text, voice_duration, total, font, width) ==
    LET toks == IF SidecarTokens(tf) # <<>> THEN SidecarTokens(tf)
                ELSE split_into_syllable_tokens(fallback_text)
        total_syllables == Len(LetterPositions(toks, Len(toks)))
    IN  IF \/ module = "weather_video" /\ fallback_text = <<>>
           \/ module = "ramadan_video" /\ SidecarUnreadable(tf)
        THEN Video(total, <<>>, <<>>, <<>>)
        ELSE IF toks = <<>>
        THEN Video(total, toks, <<>>, <<>>)
        ELSE IF SidecarSyllables(tf) # <<>>
        THEN Video(total, toks, SidecarSyllables(tf),
                   SubtitleClips(toks, SidecarSyllables(tf), total, font, width))
        ELSE IF total_syllables = 0
        THEN Video(total, toks, <<>>, <<>>)
        ELSE Video(total, toks, FallbackEvents(toks, voice_duration),
                   SubtitleClips(toks, FallbackEvents(toks, voice_duration),
                                 total, font, width))

---------------------------------------------------------------------------
(* The state machine *)

RECURSIVE SeqsUpTo(_, _)
SeqsUpTo(S, n) ==
    IF n = 0 THEN {<<>>}
    ELSE LET shorter == SeqsUpTo(S, n - 1)
         IN  shorter \cup {Append(s, c) : s \in shorter, c \in S}

\* the text "Hoi, wereld!"
HoiWereld == <<"H", "o", "i", ",", " ", "w", "e", "r", "e", "l", "d", "!">>

\* the text "12 graden"
Graden12 == <<"1", "2", " ", "g", "r", "a", "d", "e", "n">>

\* the input texts: every text up to MaxLen characters, and the scenario texts
Texts == SeqsUpTo(Chars, MaxLen) \cup {HoiWereld, Graden12}

Init ==
    /\ module \in {"weather_video", "ramadan_video"}
    /\ text \in Texts
    /\ voices_dir \in VoiceDirs
    /\ pc = "start"
    /\ outcome = "running"
    /\ tokenized = FALSE
    /\ tokens = <<>>
    /\ idx = 0
    /\ draws = 0
    /\ chosen_params = None
    /\ combined_frames = 0
    /\ current_time = FromInt(0)
    /\ syllable_events = <<>>
    /\ wav_file = NoWav
    /\ timing_file = NoTiming
    /\ runs = 1
    /\ video = NoVideo
    /\ verse_audio = NoVerseAudio
    /\ calls = <<>>

\* raise: the call ends, nothing else changes
Raise(exception) ==
    /\ pc' = "done"
    /\ outcome' = exception

\* if not os.path.isdir(voices_dir): raise FileNotFoundError
RaiseNoDirectory ==
    /\ pc = "start"
    /\ ~voices_dir.isdir
    /\ Raise("FileNotFoundError")
    /\ UNCHANGED <<calls, verse_audio, runs, video, module, text, voices_dir, tokenized, tokens, idx, draws, chosen_params,
                   combined_frames, current_time, syllable_events, wav_file, timing_file>>

\* if not files: raise FileNotFoundError
RaiseNoClips ==
    /\ pc = "start"
    /\ voices_dir.isdir
    /\ files = {}
    /\ Raise("FileNotFoundError")
    /\ UNCHANGED <<calls, verse_audio, runs, video, module, text, voices_dir, tokenized, tokens, idx, draws, chosen_params,
                   combined_frames, current_time, syllable_events, wav_file, timing_file>>

\* mutant: the event list and the clock outlive the call
Tokenize_KeepsEvents ==
    /\ pc = "start"
    /\ voices_dir.isdir
    /\ files # {}
    /\ tokens' = split_into_syllable_tokens(text)
    /\ tokenized' = TRUE
    /\ combined_frames' = 0
    /\ chosen_params' = None
    /\ idx' = 0
    /\ pc' = "loop"
    /\ UNCHANGED <<calls, verse_audio, runs, video, module, text, voices_dir, outcome, draws, wav_file,
                   timing_file, current_time, syllable_events>>

\* tokens = split_into_syllable_tokens(text) and the locals' initial values
Tokenize ==
    /\ pc = "start"
    /\ voices_dir.isdir
    /\ files # {}
    /\ tokens' = split_into_syllable_tokens(text)
    /\ tokenized' = TRUE
    /\ combined_frames' = 0
    /\ chosen_params' = None
    /\ current_time' = FromInt(0)
    /\ syllable_events' = <<>>
    /\ idx' = 0
    /\ pc' = "loop"
    /\ UNCHANGED <<calls, verse_audio, runs, video, module, text, voices_dir, outcome, draws, wav_file, timing_file>>

\* loop body for a whitespace token
WhitespaceToken ==
    /\ pc = "loop"
    /\ idx < Len(tokens)
    /\ isspace(tokens[idx + 1])
    /\ combined_frames' = append_silence(chosen_params, combined_frames, SHORT_PAUSE)
    /\ current_time' = TimeAfterSpace(current_time)
    /\ idx' = idx + 1
    /\ UNCHANGED <<calls, verse_audio, runs, video, module, text, voices_dir, pc, outcome, tokenized, tokens, draws,
                   chosen_params, syllable_events, wav_file, timing_file>>

\* loop body for any other token: one random clip, one event
SyllableToken ==
    /\ pc = "loop"
    /\ idx < Len(tokens)
    /\ ~isspace(tokens[idx + 1])
    /\ \E path \in files, pitch_factor \in PitchFactors :
         LET params == path.params
             tok == tokens[idx + 1]
             dur == Dur(params, pitch_factor)
             chosen == IF chosen_params = None THEN params ELSE chosen_params
             frames == combined_frames + FrameBytes(params, pitch_factor)
             end_time == EndTime(current_time, dur)
         IN  /\ draws' = draws + 1
             /\ IF chosen_params # None /\ FormatDiffers(params)
                THEN /\ Raise("ValueError")
                     /\ UNCHANGED <<idx, chosen_params, combined_frames, current_time,
                                    syllable_events>>
                ELSE /\ chosen_params' = chosen
                     /\ syllable_events' =
                            Append(syllable_events, Event(idx, current_time, end_time))
                     /\ combined_frames' =
                            IF EndsSentence(tok)
                            THEN append_silence(chosen, frames, LONG_PAUSE)
                            ELSE frames
                     /\ current_time' = TimeAfterToken(tok, ClockAfterClip(current_time, end_time))
                     /\ idx' = idx + 1
                     /\ UNCHANGED <<pc, outcome>>
    /\ UNCHANGED <<calls, verse_audio, runs, video, module, text, voices_dir, tokenized, tokens, wav_file, timing_file>>

\* mutant: the check for "no clip used" comes after the files are written
RaiseNoClipsUsed_AfterWrite ==
    /\ pc = "loop"
    /\ idx = Len(tokens)
    /\ chosen_params = None
    /\ wav_file' = [exists |-> TRUE, params |-> chosen_params, bytes |-> combined_frames]
    /\ timing_file' = [exists |-> TRUE, valid |-> TRUE, tokens |-> tokens,
                       syllables |-> syllable_events]
    /\ Raise("RuntimeError")
    /\ UNCHANGED <<calls, verse_audio, runs, video, module, text, voices_dir, tokenized, tokens, idx, draws, chosen_params,
                   combined_frames, current_time, syllable_events>>

\* if chosen_params is None: raise RuntimeError
RaiseNoClipsUsed ==
    /\ pc = "loop"
    /\ idx = Len(tokens)
    /\ chosen_params = None
    /\ Raise("RuntimeError")
    /\ UNCHANGED <<calls, verse_audio, runs, video, module, text, voices_dir, tokenized, tokens, idx, draws, chosen_params,
                   combined_frames, current_time, syllable_events, wav_file, timing_file>>

\* what the sidecar holds after the try block: written, or (the exception is
\* swallowed) left as it was when open() failed, or truncated when the dump failed
TimingWritten(old, toks, events) == {TimingOf(toks, events), old, BrokenTiming}

\* wave.open(out_file, "wb") creates the file and out_wf.setparams(chosen_params)
\* raises wave.Error for the sample rate 0 of the first clip; the sidecar is
\* not reached
RaiseWaveError ==
    /\ pc = "loop"
    /\ idx = Len(tokens)
    /\ chosen_params # None
    /\ chosen_params.framerate = 0
    /\ wav_file' = EmptyWav
    /\ Raise("wave.Error")
    /\ UNCHANGED <<calls, verse_audio, runs, video, module, text, voices_dir, tokenized, tokens, idx, draws, chosen_params,
                   combined_frames, current_time, syllable_events, timing_file>>

\* write the WAV, then the sidecar, and return out_file
WriteOutput ==
    /\ pc = "loop"
    /\ idx = Len(tokens)
    /\ chosen_params # None
    /\ chosen_params.framerate # 0
    /\ wav_file' = WavOf(chosen_params, combined_frames)
    /\ timing_file' \in TimingWritten(timing_file, tokens, syllable_events)
    /\ pc' = "done"
    /\ outcome' = "returned"
    /\ calls' = Append(calls, [text |-> text, tokens |-> tokens,
                                token_index |-> [k \in 1..Len(syllable_events) |->
                                                    syllable_events[k].token_index]])
    /\ UNCHANGED <<verse_audio, runs, video, module, text, voices_dir, tokenized, tokens, idx, draws, chosen_params,
                   combined_frames, current_time, syllable_events>>

Next ==
    \/ RaiseNoDirectory
    \/ RaiseNoClips
    \/ Tokenize
    \/ WhitespaceToken
    \/ SyllableToken
    \/ RaiseNoClipsUsed
    \/ RaiseWaveError
    \/ WriteOutput

Spec == Init /\ [][Next]_vars

---------------------------------------------------------------------------
(* The runs of main(): the voice, then the video, with the files of the     *)
(* earlier runs still on disk                                               *)

\* number of runs of main()
MaxRuns == 2

\* the texts of the runs: "", "a", ".a", ".", "a .", "a.aa"
RunTexts ==
    { <<>>, <<"a">>, <<".", "a">>, <<".">>, <<"a", " ", ".">>,
      <<"a", ".", "a", "a">> }

InitRuns ==
    /\ module \in {"weather_video", "ramadan_video"}
    /\ text \in RunTexts
    /\ voices_dir \in RunDirs
    /\ pc = "main"
    /\ outcome = "running"
    /\ tokenized = FALSE
    /\ tokens = <<>>
    /\ idx = 0
    /\ draws = 0
    /\ chosen_params = None
    /\ combined_frames = 0
    /\ current_time = FromInt(0)
    /\ syllable_events = <<>>
    /\ wav_file = NoWav
    /\ timing_file = NoTiming
    /\ runs = 1
    /\ video = NoVideo
    /\ verse_audio = NoVerseAudio
    /\ calls = <<>>

\* the text the renderer tokenizes when the sidecar gives no tokens:
\* forecast_text, or in ramadan_video a new build_ramadan_intro_text(), one of
\* the intro patterns at random
FallbackTexts == IF module = "weather_video" THEN {text} ELSE RunTexts \ {<<>>}

\* intro_text of create_ramadan_video: it is read only when the sidecar gives
\* no tokens; when it gives some, one text stands for all of them
IntroTexts == IF SidecarTokens(timing_file) # <<>> THEN {text} ELSE FallbackTexts

\* what ends the rest of weather_video.main() after the voice was written:
\* nothing (the video is written); FileNotFoundError when music_file does not
\* exist, before anything is computed; or an exception of a later step
\* (create_slide, the clips, write_videofile)
RenderOutcomes == {"returned", "FileNotFoundError", "Exception"}

\* weather_video: create_video(voice_file, ..., forecast_text) after the
\* voice was written: the video is computed and written, or the call raises
\* and main() ends; there is no verse audio
create_video ==
    /\ module = "weather_video"
    /\ pc = "done"
    /\ outcome = "returned"
    /\ \E fallback_text \in FallbackTexts, raised \in RenderOutcomes,
          font \in Fonts, w \in BackgroundWidths :
         IF raised = "returned"
         THEN /\ video' = Subtitles(timing_file, fallback_text, WavDuration(wav_file),
                                    TotalDuration(WavDuration(wav_file), FromInt(0)),
                                    font, box_width(w))
              /\ pc' = "rendered"
              /\ UNCHANGED outcome
         ELSE /\ outcome' = raised
              /\ pc' = "exit"
              /\ UNCHANGED video
    /\ UNCHANGED <<calls, verse_audio, runs, module, text, voices_dir, tokenized, tokens, idx, draws,
                   chosen_params, combined_frames, current_time, syllable_events,
                   wav_file, timing_file>>

\* what download_verse_audio may leave: nothing (no audio_url, or the request
\* failed); the path returned and the file written; or, when os.write raised
\* after mkstemp, the file on disk and verse_audio_path still None
Downloads ==
    { NoVerseAudio,
      [path |-> TRUE, isfile |-> TRUE],
      [path |-> FALSE, isfile |-> TRUE] }

\* weather_video.main: get_weather() or get_forecast() raises, a request
\* failed; main() ends before the voice is generated
RaiseNoWeather ==
    /\ module = "weather_video"
    /\ pc = "main"
    /\ pc' = "exit"
    /\ outcome' = "Exception"
    /\ UNCHANGED <<calls, verse_audio, runs, video, module, text, voices_dir, tokenized, tokens,
                   idx, draws, chosen_params, combined_frames, current_time,
                   syllable_events, wav_file, timing_file>>

\* weather_video.main: the weather was fetched and forecast_text =
\* build_forecast_text(...); the voice is generated next
build_forecast_text ==
    /\ module = "weather_video"
    /\ pc = "main"
    /\ pc' = "start"
    /\ UNCHANGED <<calls, verse_audio, runs, video, module, text, voices_dir, outcome, tokenized,
                   tokens, idx, draws, chosen_params, combined_frames, current_time,
                   syllable_events, wav_file, timing_file>>

\* if today < RAMADAN_START_DATE: return
ReturnBeforeRamadan ==
    /\ module = "ramadan_video"
    /\ pc = "main"
    /\ pc' = "exit"
    /\ outcome' = "not Ramadan yet"
    /\ UNCHANGED <<calls, verse_audio, runs, video, module, text, voices_dir, tokenized, tokens, idx, draws,
                   chosen_params, combined_frames, current_time, syllable_events,
                   wav_file, timing_file>>

\* verse = get_random_verse() raises: a request failed
RaiseNoVerse ==
    /\ module = "ramadan_video"
    /\ pc = "main"
    /\ pc' = "exit"
    /\ outcome' = "Exception"
    /\ UNCHANGED <<calls, verse_audio, runs, video, module, text, voices_dir, tokenized, tokens, idx, draws,
                   chosen_params, combined_frames, current_time, syllable_events,
                   wav_file, timing_file>>

\* the verse was fetched; verse_audio_path = download_verse_audio(url) inside
\* try/except; the voice is generated next
download_verse_audio ==
    /\ module = "ramadan_video"
    /\ pc = "main"
    /\ verse_audio' \in Downloads
    /\ pc' = "start"
    /\ UNCHANGED <<calls, runs, video, module, text, voices_dir, outcome, tokenized, tokens,
                   idx, draws, chosen_params, combined_frames, current_time,
                   syllable_events, wav_file, timing_file>>

\* music_file = get_ramadan_music_path(), after the voice returned: raises
\* FileNotFoundError when the music directory holds no candidate
get_ramadan_music_path ==
    /\ module = "ramadan_video"
    /\ pc = "done"
    /\ outcome = "returned"
    /\ \E candidates \in BOOLEAN :
         IF candidates
         THEN pc' = "try" /\ UNCHANGED outcome
         ELSE pc' = "exit" /\ outcome' = "FileNotFoundError"
    /\ UNCHANGED <<calls, verse_audio, runs, video, module, text, voices_dir, tokenized, tokens, idx, draws,
                   chosen_params, combined_frames, current_time, syllable_events,
                   wav_file, timing_file>>

\* try: create_ramadan_video(...) finally: unlink verse_audio_path if it is
\* set and the file exists; the video is rendered or the renderer raises;
\* os.unlink removes the file, or raises and is ignored
create_ramadan_video ==
    /\ pc = "try"
    /\ \E fallback_text \in IntroTexts, raised \in BOOLEAN,
          font \in Fonts, w \in BackgroundWidths :
         IF raised
         THEN /\ outcome' = "Exception"
              /\ pc' = "exit"
              /\ UNCHANGED video
         ELSE /\ video' = Subtitles(timing_file, fallback_text, WavDuration(wav_file),
                                    TotalDuration(WavDuration(wav_file),
                                                  VerseAudioDuration(verse_audio)),
                                    font, box_width(w))
              /\ pc' = "rendered"
              /\ UNCHANGED outcome
    /\ \E unlinked \in BOOLEAN :
         verse_audio' = IF verse_audio.path /\ verse_audio.isfile /\ unlinked
                        THEN [verse_audio EXCEPT !.isfile = FALSE]
                        ELSE verse_audio
    /\ UNCHANGED <<calls, runs, module, text, voices_dir, tokenized, tokens, idx, draws,
                   chosen_params, combined_frames, current_time, syllable_events,
                   wav_file, timing_file>>

\* the next run of main(), after the video was rendered or a step raised:
\* another text, the same out_file; the locals of the earlier call are dead
\* and bound anew by the call. The run is at the top of main(): the requests
\* for the weather (weather_video) or the date check, the verse and the
\* download (ramadan_video) follow as steps of their own; verse_audio_path
\* is not bound yet and the run has no temporary file
main ==
    /\ \/ pc = "rendered"
       \/ pc = "exit"
       \/ pc = "done" /\ outcome # "returned"
    /\ runs < MaxRuns
    /\ runs' = runs + 1
    /\ text' \in RunTexts
    /\ voices_dir' \in RunDirs
    /\ outcome' = "running"
    /\ pc' = "main"
    /\ verse_audio' = NoVerseAudio
    /\ tokenized' = FALSE
    /\ draws' = 0
    /\ video' = NoVideo
    /\ UNCHANGED <<calls, module, tokens, idx, chosen_params, combined_frames,
                   current_time, syllable_events, wav_file, timing_file>>

NextRuns ==
    \/ RaiseNoDirectory
    \/ RaiseNoClips
    \/ Tokenize
    \/ WhitespaceToken
    \/ SyllableToken
    \/ RaiseNoClipsUsed
    \/ RaiseWaveError
    \/ WriteOutput
    \/ create_video
    \/ RaiseNoWeather
    \/ build_forecast_text
    \/ ReturnBeforeRamadan
    \/ RaiseNoVerse
    \/ download_verse_audio
    \/ get_ramadan_music_path
    \/ create_ramadan_video
    \/ main

SpecRuns == InitRuns /\ [][NextRuns]_vars

---------------------------------------------------------------------------
(* The two copies on one text: after the call of weather_video.py has      *)
(* ended, the same text and directory are given to ramadan_video.py        *)

\* the copy of ramadan_video.py is called with the text the copy of
\* weather_video.py has tokenized; it writes its own out_file and has made
\* no call yet
OtherCopy ==
    /\ pc = "done"
    /\ tokenized
    /\ module = "weather_video"
    /\ module' = "ramadan_video"
    /\ pc' = "start"
    /\ outcome' = "running"
    /\ tokenized' = FALSE
    /\ tokens' = <<>>
    /\ idx' = 0
    /\ draws' = 0
    /\ chosen_params' = None
    /\ combined_frames' = 0
    /\ current_time' = FromInt(0)
    /\ syllable_events' = <<>>
    /\ wav_file' = NoWav
    /\ timing_file' = NoTiming
    /\ calls' = <<>>
    /\ UNCHANGED <<verse_audio, runs, video, text, voices_dir>>

NextCopies ==
    \/ RaiseNoDirectory
    \/ RaiseNoClips
    \/ Tokenize
    \/ WhitespaceToken
    \/ SyllableToken
    \/ RaiseNoClipsUsed
    \/ RaiseWaveError
    \/ WriteOutput
    \/ OtherCopy

SpecCopies == Init /\ [][NextCopies]_vars

---------------------------------------------------------------------------
(* ramadan_video.main(): the verse audio is downloaded to a temporary file, *)
(* then the voice, the music and the video follow                           *)

InitMain ==
    /\ module = "ramadan_video"
    /\ text \in RunTexts
    /\ voices_dir \in RunDirs
    /\ pc = "main"
    /\ outcome = "running"
    /\ tokenized = FALSE
    /\ tokens = <<>>
    /\ idx = 0
    /\ draws = 0
    /\ chosen_params = None
    /\ combined_frames = 0
    /\ current_time = FromInt(0)
    /\ syllable_events = <<>>
    /\ wav_file = NoWav
    /\ timing_file = NoTiming
    /\ runs = 1
    /\ video = NoVideo
    /\ verse_audio = NoVerseAudio
    /\ calls = <<>>

NextMain ==
    \/ ReturnBeforeRamadan
    \/ RaiseNoVerse
    \/ download_verse_audio
    \/ RaiseNoDirectory
    \/ RaiseNoClips
    \/ Tokenize
    \/ WhitespaceToken
    \/ SyllableToken
    \/ RaiseNoClipsUsed
    \/ RaiseWaveError
    \/ WriteOutput
    \/ get_ramadan_music_path
    \/ create_ramadan_video

SpecMain == InitMain /\ [][NextMain]_vars

\* main() has ended: before the download, by an exception of the voice, of
\* the music selection or of the renderer, or after the video was written
MainExited == pc \in {"exit", "rendered"} \/ (pc = "done" /\ outcome # "returned")

---------------------------------------------------------------------------
(* Vocabulary of the properties *)

HasVowel(s) == \E k \in 1..Len(s) : s[k] \in VOWELS

\* the words the tokenizer passes to _split_word_into_syllables: the maximal
\* runs of letters of the text
WordsOf(t) ==
    { SubSeq(t, i, j) : <<i, j>> \in
        { p \in (1..Len(t)) \X (1..Len(t)) :
            /\ p[1] <= p[2]
            /\ \A k \in p[1]..p[2] : isalpha_ch(t[k])
            /\ (p[1] = 1 \/ ~isalpha_ch(t[p[1] - 1]))
            /\ (p[2] = Len(t) \/ ~isalpha_ch(t[p[2] + 1])) } }

Terminators == {".", "!", "?"}

\* a character that is neither a letter nor whitespace
ispunct_ch(ch) == ~isalpha_ch(ch) /\ ~isspace_ch(ch)

\* the token of event number k (1-based) of an event list
TokenOf(toks, events, k) == toks[events[k].token_index + 1]

\* the 0-based positions, in order, of the non-whitespace tokens among the first n
RECURSIVE SpokenPositions(_, _)
SpokenPositions(toks, n) ==
    IF n = 0 THEN <<>>
    ELSE IF isspace(toks[n])
         THEN SpokenPositions(toks, n - 1)
         ELSE Append(SpokenPositions(toks, n - 1), n - 1)

\* the call returned and its sidecar was written
Persisted == outcome = "returned" /\ timing_file = TimingOf(tokens, syllable_events)

\* the directory is missing or holds no .wav clip
EmptyPool ==
    \/ ~voices_dir.isdir
    \/ \A e \in voices_dir.entries : e.ext \notin {".wav", ".WAV"}

NothingWritten == wav_file = NoWav /\ timing_file = NoTiming

\* the number of vowel-set characters of s
VowelCount(s) == Cardinality({k \in 1..Len(s) : s[k] \in VOWELS})

\* pat occurs in s
Contains(s, pat) ==
    \E i \in 0..(Len(s) - Len(pat)) : SubSeq(s, i + 1, i + Len(pat)) = pat

\* s is a prefix of t
IsPrefix(s, t) == Len(s) <= Len(t) /\ s = SubSeq(t, 1, Len(s))

\* two times that differ by less than 2^-45 s: by rounding errors of float
\* sums below 16 s at most
Close(a, b) ==
    IF BigLess(a, b)
    THEN BigLess(BigSub(b, a), ShiftLimbs(<<1>>, FractionLimbs - 3))
    ELSE BigLess(BigSub(a, b), ShiftLimbs(<<1>>, FractionLimbs - 3))

\* a time after n short pauses, added one by one
RECURSIVE AddShortPauses(_, _)
AddShortPauses(t, n) == IF n = 0 THEN t ELSE AddShortPauses(FAdd(t, SHORT_PAUSE), n - 1)

\* the token_index values of an event list, in order
TokenIndices(events) == [k \in 1..Len(events) |-> events[k].token_index]

\* the event (1-based number) that subtitle clip k of the video is made from
EventOfClip(k) == Len(video.syllable_events) - Len(video.subtitle_clips) + k

\* the characters of a string that are not whitespace, in order
RECURSIVE NonSpace(_)
NonSpace(s) ==
    IF s = <<>> THEN <<>>
    ELSE IF isspace_ch(Head(s)) THEN NonSpace(Tail(s))
         ELSE <<Head(s)>> \o NonSpace(Tail(s))

\* the characters a subtitle clip shows, line after line, without the
\* whitespace
ShownCharacters(clip) == NonSpace(Concat(clip.lines))

\* the end of the display interval of a subtitle clip
ClipEnd(clip) == FAdd(clip.start, clip.duration)

---------------------------------------------------------------------------
(* Properties *)

\* C1: joining the tokens of split_into_syllable_tokens(text) in order gives
\* exactly the text, for texts of letters, whitespace and punctuation
C1_RoundTrip == tokenized => Concat(tokens) = text

\* a text with a letter, a whitespace and a punctuation character was tokenized
C1_Witness ==
    /\ tokenized
    /\ Len(tokens) >= 2
    /\ \E i, j, k \in 1..Len(text) :
         isalpha_ch(text[i]) /\ isspace_ch(text[j])
         /\ ~isalpha_ch(text[k]) /\ ~isspace_ch(text[k])

\* C2: when every drawn clip duration is greater than 0, the start times of
\* the recorded events strictly increase in list order, so the persisted list
\* is sorted by start
C2_MonotonicStarts ==
    (\A k \in 1..Len(syllable_events) :
        BigLess(syllable_events[k].start, syllable_events[k].end))
    => /\ \A k \in 1..(Len(syllable_events) - 1) :
            BigLess(syllable_events[k].start, syllable_events[k + 1].start)
       /\ Persisted =>
            \A k \in 1..(Len(timing_file.syllables) - 1) :
               BigLess(timing_file.syllables[k].start, timing_file.syllables[k + 1].start)

\* a call persisted at least two events, all of positive duration
C2_Witness ==
    /\ Persisted
    /\ Len(syllable_events) >= 2
    /\ \A k \in 1..Len(syllable_events) :
          BigLess(syllable_events[k].start, syllable_events[k].end)

\* C3 as stated: for the text "" the tokenizer returns no token and the voice
\* routine produces an empty event list and completes normally
C3_EmptyTextReturns ==
    (pc = "done" /\ text = <<>> /\ ~EmptyPool)
    => tokens = <<>> /\ syllable_events = <<>> /\ outcome = "returned"

\* C4: with the voice directory missing or without any .wav clip the call
\* raises before tokenizing or drawing, and writes neither WAV nor sidecar
C4_EmptyPoolFatal ==
    EmptyPool
    => /\ ~tokenized /\ draws = 0 /\ syllable_events = <<>>
       /\ NothingWritten
       /\ pc \in {"start", "done"}
       /\ pc = "done" => outcome = "FileNotFoundError"

\* the call ended on a directory that exists and holds no .wav clip
C4_Witness ==
    /\ pc = "done" /\ outcome = "FileNotFoundError"
    /\ voices_dir.isdir /\ voices_dir.entries # {}
    /\ text # <<>>

\* C5: every chunk of a word except possibly the last holds a vowel
C5_VowelAnchoring ==
    tokenized =>
      \A w \in WordsOf(text) :
        LET s == _split_word_into_syllables(w)
        IN  \A k \in 1..(Len(s) - 1) : HasVowel(s[k])

\* a word of the text was split into at least two chunks, the first of them
\* starting with a consonant
C5_Witness ==
    /\ tokenized
    /\ \E w \in WordsOf(text) :
         /\ Len(_split_word_into_syllables(w)) >= 2
         /\ w[1] \notin VOWELS

\* C6: for a word with a vowel the last chunk is never vowel-free: the
\* consonants that end the word are in the chunk of the last vowel
C6_NoOrphanTail ==
    tokenized =>
      \A w \in WordsOf(text) :
        HasVowel(w) =>
          LET s == _split_word_into_syllables(w)
          IN  /\ s # <<>>
              /\ HasVowel(s[Len(s)])

\* a word that ends in a consonant after a vowel was split
C6_Witness ==
    /\ tokenized
    /\ \E w \in WordsOf(text) :
         HasVowel(w) /\ w[Len(w)] \notin VOWELS

\* C7: a non-empty word without any vowel is returned as one chunk, the whole
\* word; the empty word gives the empty list
C7_VowelFreeWord ==
    tokenized =>
      /\ \A w \in WordsOf(text) :
           ~HasVowel(w) => _split_word_into_syllables(w) = <<w>>
      /\ _split_word_into_syllables(<<>>) = <<>>

\* a vowel-free word of two letters or more was split
C7_Witness ==
    /\ tokenized
    /\ \E w \in WordsOf(text) : ~HasVowel(w) /\ Len(w) >= 2

\* C8: one event for each non-whitespace token and none for a whitespace
\* token; the i-th event's token_index is the position of the i-th
\* non-whitespace token, so the indices strictly increase; a whitespace token
\* only advances the clock by the short pause, 0.05
C8_OneEventPerSpokenToken ==
    /\ [](tokenized =>
            /\ idx <= Len(tokens)
            /\ outcome = "returned" => idx = Len(tokens)
            /\ Len(syllable_events) = Len(SpokenPositions(tokens, idx))
            /\ \A k \in 1..Len(syllable_events) :
                  syllable_events[k].token_index = SpokenPositions(tokens, idx)[k]
            /\ \A k \in 1..(Len(syllable_events) - 1) :
                  syllable_events[k].token_index < syllable_events[k + 1].token_index)
    /\ [][(pc = "loop" /\ idx' = idx + 1 /\ isspace(tokens[idx + 1]))
            => /\ syllable_events' = syllable_events
               /\ current_time' = FAdd(current_time, SHORT_PAUSE)
               /\ draws' = draws]_vars

\* a call returned whose tokens hold a whitespace token between two spoken
\* tokens: the two events' indices differ by 2
C8_Witness ==
    /\ outcome = "returned"
    /\ \E k \in 1..(Len(syllable_events) - 1) :
          /\ syllable_events[k + 1].token_index = syllable_events[k].token_index + 2
          /\ isspace(tokens[syllable_events[k].token_index + 2])

\* C9 as stated: when the token of an event ends in '.', '!' or '?', the next
\* event starts at least the long pause (0.6) after that event's end,
\* whatever whitespace tokens lie in between; the difference of the two
\* recorded times is taken exactly
C9_SentencePause ==
    \A k \in 1..(Len(syllable_events) - 1) :
       LET tok == TokenOf(tokens, syllable_events, k)
       IN  tok[Len(tok)] \in Terminators
           => BigLeq(BigAdd(syllable_events[k].end, LONG_PAUSE),
                     syllable_events[k + 1].start)

\* C10: the next event starts at the event's end plus 0.6 if the last character
\* of the token is '.', '!' or '?' plus 0.05 for each whitespace token between
\* the two tokens (float sums, in that order), and plus nothing else: with no
\* pause the next start equals the end, also when a terminator is followed by
\* another character in the token
C10_ExactGap ==
    \A k \in 1..(Len(syllable_events) - 1) :
       LET tok == TokenOf(tokens, syllable_events, k)
           between == syllable_events[k + 1].token_index - syllable_events[k].token_index - 1
       IN  /\ \A j \in 1..between :
                isspace(tokens[syllable_events[k].token_index + 1 + j])
           /\ syllable_events[k + 1].start =
                 AddShortPauses(IF tok[Len(tok)] \in Terminators
                                THEN FAdd(syllable_events[k].end, LONG_PAUSE)
                                ELSE syllable_events[k].end,
                                between)

\* a token holding a terminator followed by another character is directly
\* followed by a spoken token, which starts where it ends
C10_Witness ==
    \E k \in 1..(Len(syllable_events) - 1) :
       LET tok == TokenOf(tokens, syllable_events, k)
       IN  /\ \E j \in 1..(Len(tok) - 1) : tok[j] \in Terminators
           /\ tok[Len(tok)] \notin Terminators
           /\ syllable_events[k + 1].token_index = syllable_events[k].token_index + 1
           /\ syllable_events[k + 1].start = syllable_events[k].end

\* C12: every whitespace character of the text is a token of its own (as many
\* whitespace tokens as whitespace characters), and no other token holds a
\* whitespace character
C12_WhitespaceSingle ==
    tokenized =>
      /\ \A k \in 1..Len(tokens) :
           (\E j \in 1..Len(tokens[k]) : isspace_ch(tokens[k][j])) => Len(tokens[k]) = 1
      /\ Cardinality({k \in 1..Len(tokens) : isspace(tokens[k])})
           = Cardinality({i \in 1..Len(text) : isspace_ch(text[i])})

\* a text with two whitespace characters in a row, followed by punctuation,
\* was tokenized
C12_Witness ==
    /\ tokenized
    /\ Len(text) = 3
    /\ isspace_ch(text[1]) /\ isspace_ch(text[2]) /\ ispunct_ch(text[3])

\* C13: when a word is directly followed by characters that are neither
\* letters nor whitespace, all of them are in the token of the word's last
\* chunk, and the word's other chunks are tokens as they are
C13_TrailingPunctuation ==
    tokenized =>
      \A i, j, k \in 1..Len(text) :
        (/\ i <= j /\ j < k
         /\ \A m \in i..j : isalpha_ch(text[m])
         /\ (i = 1 \/ ~isalpha_ch(text[i - 1]))
         /\ \A m \in (j + 1)..k : ispunct_ch(text[m])
         /\ (k = Len(text) \/ ~ispunct_ch(text[k + 1])))
        => LET sylls == _split_word_into_syllables(SubSeq(text, i, j))
               n == Len(sylls)
           IN  \E p \in 1..Len(tokens) :
                 /\ Len(Concat(SubSeq(tokens, 1, p - 1))) = i - 1
                 /\ p + n - 1 <= Len(tokens)
                 /\ \A m \in 1..(n - 1) : tokens[p + m - 1] = sylls[m]
                 /\ tokens[p + n - 1] = sylls[n] \o SubSeq(text, j + 1, k)

\* a word of two chunks directly followed by punctuation was tokenized
C13_Witness ==
    /\ tokenized
    /\ Len(text) = 3
    /\ Len(_split_word_into_syllables(SubSeq(text, 1, 2))) = 2
    /\ ispunct_ch(text[3])

\* C14: a token with no letter and no whitespace is the first token or comes
\* right after a whitespace token; punctuation at the start of the text is one
\* standalone first token
C14_BarePunctuation ==
    tokenized =>
      /\ \A k \in 1..Len(tokens) :
           (~HasLetter(tokens[k]) /\ ~isspace(tokens[k]))
           => (k = 1 \/ isspace(tokens[k - 1]))
      /\ (text # <<>> /\ ispunct_ch(text[1]))
           => \E n \in 1..Len(text) :
                /\ tokens[1] = SubSeq(text, 1, n)
                /\ \A m \in 1..n : ispunct_ch(text[m])
                /\ (n = Len(text) \/ ~ispunct_ch(text[n + 1]))

\* a text of two punctuation characters in a row and then a letter was
\* tokenized: the punctuation is the first token
C14_Witness ==
    /\ tokenized
    /\ Len(text) = 3
    /\ ispunct_ch(text[1]) /\ ispunct_ch(text[2]) /\ isalpha_ch(text[3])
    /\ Len(tokens) = 2

\* C17 as stated: for "Hoi, wereld!" the tokenizer returns
\* ["Hoi,", " ", "we", "reld!"]
C17_HoiWereldAsStated ==
    (tokenized /\ text = HoiWereld)
    => tokens = << <<"H", "o", "i", ",">>, <<" ">>, <<"w", "e">>,
                   <<"r", "e", "l", "d", "!">> >>

\* C17 amended: for "Hoi, wereld!" the tokenizer returns
\* ["Ho", "i,", " ", "wer", "eld!"]
C17_HoiWereld ==
    (tokenized /\ text = HoiWereld)
    => tokens = << <<"H", "o">>, <<"i", ",">>, <<" ">>, <<"w", "e", "r">>,
                   <<"e", "l", "d", "!">> >>

\* the call on "Hoi, wereld!" has scanned all its tokens
C17_Witness == tokenized /\ text = HoiWereld /\ idx = Len(tokens) /\ idx > 0

\* C19 as stated: the clock follows the audio appended so far, so every event
\* starts at the length of the clips and silence before it, pauses before the
\* first clip included, and the clock after the last token is the length of
\* the WAV (for clips whose header gives a sample rate, so that the audio has
\* a length); times are compared up to the rounding of the float sums
C19_TimesFollowAudio ==
    (tokenized /\ syllable_events # <<>> /\ chosen_params.framerate # 0) =>
      /\ Close(current_time, WavDuration(WavOf(chosen_params, combined_frames)))
      /\ outcome = "returned" => Close(current_time, WavDuration(wav_file))

\* C11 as stated, for a sidecar that can be read: after any sequence of calls
\* writing the same out_file, when the latest call returned the sidecar holds
\* the token list and the events of that call, never those of an earlier call
C11_SidecarMatchesAudio ==
    (outcome = "returned" /\ timing_file.exists /\ timing_file.valid)
    => timing_file = TimingOf(tokens, syllable_events)

\* C15 as stated, read up to whitespace (the text is drawn word by word): the
\* characters every subtitle shows are those of the concatenation of the
\* tokens up to the event's token_index, those of a prefix of the text that
\* was spoken, and more than those of every earlier subtitle
C15_ProgressiveReveal ==
    pc = "rendered" =>
      \A k \in 1..Len(video.subtitle_clips) :
        LET clip == video.subtitle_clips[k]
        IN  /\ ShownCharacters(clip) =
                  NonSpace(Concat(SubSeq(video.tokens, 1,
                      video.syllable_events[EventOfClip(k)].token_index + 1)))
            /\ IsPrefix(ShownCharacters(clip), NonSpace(text))
            /\ \A j \in 1..(k - 1) :
                  Len(ShownCharacters(video.subtitle_clips[j])) < Len(ShownCharacters(clip))

\* C16 as stated: every subtitle but the last is displayed for exactly the
\* time from its event's start to the next event's start, and its display
\* interval ends where the next one begins (the ends compared up to the
\* rounding of the sums)
C16_ExactDuration ==
    pc = "rendered" =>
      \A k \in 1..(Len(video.subtitle_clips) - 1) :
        LET clip == video.subtitle_clips[k]
            ev == video.syllable_events[EventOfClip(k)]
            next == video.syllable_events[EventOfClip(k) + 1]
        IN  /\ clip.duration = Minus(next.start, ev.start)
            /\ Close(ClipEnd(clip), video.subtitle_clips[k + 1].start)

\* C16 amended: every subtitle but the last starts at its event's start plus
\* the entry delay and is displayed for the time from its event's start to
\* the next event's start, but for 0.01 at least: when the next event starts
\* 0.01 or more later the interval ends where the next one begins, up to the
\* rounding of the sums; otherwise it lasts 0.01 and overlaps the next one
C16_ClampedDuration ==
    pc = "rendered" =>
      \A k \in 1..(Len(video.subtitle_clips) - 1) :
        LET clip == video.subtitle_clips[k]
            ev == video.syllable_events[EventOfClip(k)]
            next == video.syllable_events[EventOfClip(k) + 1]
            gap == Minus(next.start, ev.start)
        IN  /\ clip.start = FAdd(ev.start, avatar_entry_duration)
            /\ BigLeq(MIN_CLIP_DURATION, gap)
                 => /\ clip.duration = gap
                    /\ Close(ClipEnd(clip), video.subtitle_clips[k + 1].start)
            /\ BigLess(gap, MIN_CLIP_DURATION)
                 => /\ clip.duration = MIN_CLIP_DURATION
                    /\ BigLess(video.subtitle_clips[k + 1].start, ClipEnd(clip))

\* a video with three subtitles: the first ends where the second begins, the
\* second is followed by an event that starts less than 0.01 after its own
C16_Witness ==
    /\ pc = "rendered"
    /\ Len(video.subtitle_clips) = 3
    /\ Close(ClipEnd(video.subtitle_clips[1]), video.subtitle_clips[2].start)
    /\ LET ev == video.syllable_events[EventOfClip(2)]
           next == video.syllable_events[EventOfClip(2) + 1]
       IN  /\ BigLess(ev.start, next.start)
           /\ BigLess(FSub(next.start, ev.start), MIN_CLIP_DURATION)

\* C18: any two calls that returned for the same text, whatever clips and
\* pitch factors were drawn in them and whatever calls were made before
\* them, returned the same token list and the same sequence of token_index
\* values in their events
C18_Deterministic ==
    \A i, j \in 1..Len(calls) :
        calls[i].text = calls[j].text
        => /\ calls[i].tokens = calls[j].tokens
           /\ calls[i].token_index = calls[j].token_index

\* two calls returned for the same text, the second one after the first, with
\* two events or more; the sidecar on disk is still that of the first call
\* (the second write failed) and its start and end times are not those of
\* the second call
C18_Witness ==
    /\ Len(calls) = 2
    /\ calls[1].text = calls[2].text
    /\ outcome = "returned"
    /\ Len(syllable_events) >= 2
    /\ timing_file.valid
    /\ timing_file.tokens = tokens
    /\ TokenIndices(timing_file.syllables) = TokenIndices(syllable_events)
    /\ timing_file.syllables # syllable_events

\* C20 as stated: the last subtitle starts at its event's start plus the
\* avatar entry delay and its display interval ends at total_duration (up to
\* the rounding of the sums)
C20_LastEndsAtTotal ==
    (pc = "rendered" /\ video.subtitle_clips # <<>>) =>
      LET clip == video.subtitle_clips[Len(video.subtitle_clips)]
          ev == video.syllable_events[Len(video.syllable_events)]
      IN  /\ clip.start = FAdd(ev.start, avatar_entry_duration)
          /\ Close(ClipEnd(clip), video.total_duration)

\* C21 as stated: the two copies of the tokenizer agree: the token list
\* ramadan_video.py returns for a text is the one weather_video.py returned
\* for it
C21_CopiesAgree ==
    [][(module' # module) => split_into_syllable_tokens(text)' = tokens]_vars

\* C22 as stated, for a renderer that uses the tokens of this run's text: in
\* the synced and in the fallback mode the last subtitle shows every
\* character of the text that is not whitespace, in order
C22_RevealedInFull ==
    (pc = "rendered" /\ video.tokens = tokens /\ video.syllable_events # <<>>)
    => /\ video.subtitle_clips # <<>>
       /\ ShownCharacters(video.subtitle_clips[Len(video.subtitle_clips)]) = NonSpace(text)

\* C23: every chunk of a word after the first starts with a vowel (stated
\* where the tokenizer has just returned)
C23_LaterChunksStartWithVowel ==
    (tokenized /\ idx = 0) =>
      \A w \in WordsOf(text) :
        LET s == _split_word_into_syllables(w)
        IN  \A k \in 2..Len(s) : s[k][1] \in VOWELS

\* a word with consonants between two vowels was split
C23_Witness ==
    /\ tokenized
    /\ \E w \in WordsOf(text) :
         /\ Len(w) >= 3
         /\ w[1] \in VOWELS /\ w[2] \notin VOWELS /\ w[Len(w)] \in VOWELS
         /\ Len(_split_word_into_syllables(w)) = 2

\* C24: a chunk that holds a vowel holds exactly one, a non-empty word gives
\* max(1, number of its vowels) chunks, no token holds two vowels, and so no
\* token holds the word "graden" (stated where the tokenizer has just returned)
C24_OneVowelPerToken ==
    (tokenized /\ idx = 0) =>
      /\ \A w \in WordsOf(text) :
           LET s == _split_word_into_syllables(w)
           IN  /\ Len(s) = Max(1, VowelCount(w))
               /\ \A k \in 1..Len(s) : HasVowel(s[k]) => VowelCount(s[k]) = 1
      /\ \A k \in 1..Len(tokens) :
           /\ VowelCount(tokens[k]) <= 1
           /\ ~Contains(tokens[k], <<"g", "r", "a", "d", "e", "n">>)

\* the text "12 graden" was tokenized: "12", " ", "grad", "en"
C24_Witness ==
    /\ tokenized
    /\ text = Graden12
    /\ Len(tokens) = 4
    /\ Contains(Concat(tokens), <<"g", "r", "a", "d", "e", "n">>)

\* C25: no drawn duration being negative, every event has start <= end and
\* ends no later than the next event starts, in the call and in the sidecar
C25_NoOverlap ==
    /\ \A k \in 1..Len(syllable_events) :
          BigLeq(syllable_events[k].start, syllable_events[k].end)
    /\ \A k \in 1..(Len(syllable_events) - 1) :
          BigLeq(syllable_events[k].end, syllable_events[k + 1].start)
    /\ Persisted =>
         \A k \in 1..(Len(timing_file.syllables) - 1) :
            BigLeq(timing_file.syllables[k].end, timing_file.syllables[k + 1].start)

\* a call persisted three events: one ends where the next starts, another is
\* followed by a pause
C25_Witness ==
    /\ Persisted
    /\ Len(syllable_events) = 3
    /\ \E j, k \in 1..2 :
          /\ syllable_events[j].end = syllable_events[j + 1].start
          /\ BigLess(syllable_events[j].start, syllable_events[j].end)
          /\ BigLess(syllable_events[k].end, syllable_events[k + 1].start)

\* C26: with clips available, a call on a text of whitespace characters only
\* scans every token, raises RuntimeError and writes neither the WAV nor the
\* sidecar; a WAV or a sidecar exists only if at least one event was recorded
C26_NoSpokenToken ==
    /\ (pc = "done" /\ ~EmptyPool /\ \A k \in 1..Len(text) : isspace_ch(text[k]))
       => /\ outcome = "RuntimeError"
          /\ idx = Len(tokens)
          /\ syllable_events = <<>>
          /\ NothingWritten
    /\ (wav_file.exists \/ timing_file.exists) => syllable_events # <<>>

\* the call on a text of two spaces has ended, after both pauses were counted
C26_Witness ==
    /\ pc = "done" /\ ~EmptyPool
    /\ text = <<" ", " ">>
    /\ Len(tokens) = 2 /\ idx = 2
    /\ current_time = FAdd(SHORT_PAUSE, SHORT_PAUSE)

\* the format of a clip as its header gives it: channels, sample width, framerate
Format(params) == <<params.nchannels, params.sampwidth, params.framerate>>

\* C27 as stated: a call that raised ValueError has written neither the WAV
\* nor the sidecar, and it raised only if the pool holds a clip whose format
\* differs from the format of the first clip drawn (with every clip of the
\* format of the first one, no ValueError is raised)
C27_FormatMismatch ==
    outcome = "ValueError"
    => /\ NothingWritten
       /\ chosen_params # None
       /\ \E path \in files : Format(path.params) # Format(chosen_params)

\* the renderer tokenized ft itself and built the events C28 describes for the
\* voice duration D: one for each token with a letter, the k-th from
\* (k-1)/N * D to k/N * D; no event and no subtitle when no token has a
\* letter
EvenlySpaced(v, ft, D) ==
    LET toks == split_into_syllable_tokens(ft)
        letters == {i \in 1..Len(toks) : HasLetter(toks[i])}
        N == Cardinality(letters)
    IN  IF N = 0
        THEN v.tokens = toks /\ v.syllable_events = <<>> /\ v.subtitle_clips = <<>>
        ELSE /\ v.tokens = toks
             /\ Len(v.syllable_events) = N
             /\ \A k \in 1..N :
                   /\ v.syllable_events[k].token_index + 1 \in letters
                   /\ Cardinality({i \in letters : i <= v.syllable_events[k].token_index + 1}) = k
                   /\ v.syllable_events[k].start = FMul(FDivInt(k - 1, N), D)
                   /\ v.syllable_events[k].end = FMul(FDivInt(k, N), D)
             /\ v.syllable_events[N].end = D
             /\ v.subtitle_clips # <<>>

\* C28 as stated: a video rendered while the sidecar is missing or gives no
\* events has the evenly spaced events of the tokens of the text the renderer
\* was given, one for each token with a letter; with no such token it has no
\* subtitle, and it is rendered all the same
C28_UnsyncedFallback ==
    (pc = "rendered" /\ SidecarSyllables(timing_file) = <<>>)
    => \E ft \in FallbackTexts : EvenlySpaced(video, ft, WavDuration(wav_file))

\* the events of a rendered video whose token holds a letter (1-based)
WordEvents(v) ==
    {i \in 1..Len(v.syllable_events) :
        /\ v.syllable_events[i].token_index < Len(v.tokens)
        /\ HasLetter(v.tokens[v.syllable_events[i].token_index + 1])}

\* C29: a rendered video has no subtitle for the events before the first
\* event whose token holds a letter, and one subtitle for that event and for
\* each later one, in order, starting when the event starts (after the entry
\* delay); when no event's token holds a letter every event has its subtitle
C29_NoSubtitleBeforeFirstWord ==
    (pc = "rendered" /\ video.syllable_events # <<>>)
    => LET ev == video.syllable_events
           clips == video.subtitle_clips
           first == IF WordEvents(video) = {} THEN 1
                    ELSE CHOOSE i \in WordEvents(video) : \A j \in WordEvents(video) : i <= j
       IN  /\ Len(clips) = Len(ev) - (first - 1)
           /\ \A k \in 1..Len(clips) :
                 /\ clips[k].start = FAdd(ev[first - 1 + k].start, avatar_entry_duration)
                 /\ ShownCharacters(clips[k]) =
                      NonSpace(PartialText(video.tokens, ev[first - 1 + k].token_index))
           /\ \A i \in 1..(first - 1), k \in 1..Len(clips) :
                 BigLess(FAdd(ev[i].start, avatar_entry_duration), clips[k].start)

\* a video rendered from the sidecar of ".a": the event of "." has no
\* subtitle, the event of "a" has one
C29_Witness ==
    /\ pc = "rendered"
    /\ video.tokens = <<<<".">>, <<"a">>>>
    /\ Len(video.syllable_events) = 2
    /\ Len(video.subtitle_clips) = 1
    /\ ShownCharacters(video.subtitle_clips[1]) = <<".", "a">>

\* C30 as stated: whenever ramadan_video.main has ended, by a normal return
\* or by an exception of a step after the download, the temporary MP3 the
\* download created is no longer on disk
C30_VerseAudioRemoved == MainExited => ~verse_audio.isfile

====
